---- MODULE Spec2Model ----
(***************************************************************************)
(* Model of the chunking engine of repo-indexer/chunker/chunker.py:        *)
(* TokenEstimator, TreeSitterChunker (fallback segmentation, merging of    *)
(* small chunks, overlap injection, chunk identity) and RepoChunker        *)
(* (process_file, _write_chunks).                                          *)
(*                                                                         *)
(* Texts (file content, chunk text, paths, digests) are sequences of       *)
(* one-character strings; chunk names and type tags are strings.           *)
(***************************************************************************)
EXTENDS Integers, Sequences, FiniteSets, TLC

VARIABLES
    filepath,        \* path of the file handed to process_file
    content,         \* text of that file
    parsers,         \* the file's language, if a parser and a query are loaded
    max_tokens,      \* TreeSitterChunker.max_tokens
    min_tokens,      \* TreeSitterChunker.min_tokens
    overlap_tokens,  \* TreeSitterChunker.overlap_tokens
    pc,              \* position inside process_file / chunk_file
    parse_errors,    \* TreeSitterChunker.parse_errors
    source,          \* where the spans of the file came from
    spans,           \* `nodes` after structural parse or fallback
    normalized,      \* `nodes` as returned by _merge_small_chunks
    chunks,          \* `nodes` as returned by _add_overlap
    overlap_log,     \* per chunk, the line slices _add_overlap took
    records,         \* lines appended to chunks.jsonl
    stats,           \* RepoChunker.stats
    id_args,         \* two argument tuples for the identity functions
    ids,             \* results of create_chunk_id on id_args
    fingerprints,    \* results of create_code_fingerprint on id_args
    baseline,        \* stats, records and parse_errors of the same calls
                     \* without those whose file could not be read
    summary_args,    \* text and node_type handed to generate_summary
    summary,         \* what generate_summary returned
    threads,         \* per thread of a parallel host, its place in process_file
    call_args,       \* argument of a function of the chunker called on its own
    call_result      \* what that call returned

vars == <<filepath, content, parsers, max_tokens, min_tokens, overlap_tokens,
          pc, parse_errors, source, spans, normalized, chunks, overlap_log,
          records, stats, id_args, ids, fingerprints, baseline,
          summary_args, summary, threads, call_args, call_result>>

pipeVars == <<filepath, content, parsers, max_tokens, min_tokens,
              overlap_tokens, pc, parse_errors, source, spans, normalized,
              chunks, overlap_log, records, stats>>

idVars == <<id_args, ids, fingerprints>>

callVars == <<call_args, call_result>>

sideVars == <<summary_args, summary, threads, callVars>>

----------------------------------------------------------------------------
(* Bounds of the model *)

MaxLines == 3          \* a file has at most this many lines
MaxTokensBound == 2    \* max_tokens and min_tokens range over 0..this
MaxOverlapLines == 2   \* overlap_tokens // 4 ranges over 0..this
MaxIdLine == 3         \* line numbers handed to the identity functions
MaxCalls == 2          \* process_file is called at most this many times
MaxSpans == 3          \* _merge_small_chunks is handed at most this many spans
MaxExcess == 1         \* a first line is at most this much longer than is kept
MaxThreads == 2        \* process_file runs in this many threads at once

\* the number of characters of the first line that a summary keeps
SummaryWidth == 100

----------------------------------------------------------------------------
(* Text helpers *)

NL == "\n"

Max2(a, b) == IF a > b THEN a ELSE b

Min2(a, b) == IF a < b THEN a ELSE b

\* str.split('\n'): always at least one piece, '' splits to ['']
Split(s) ==
    LET breaks == {i \in 1..Len(s) : s[i] = NL}
        \* where piece k starts and ends: after break k - 1, before break k
        BreakAt(k) ==
            IF k = 0 THEN 0
            ELSE IF k > Cardinality(breaks) THEN Len(s) + 1
            ELSE CHOOSE i \in breaks :
                    Cardinality({j \in breaks : j <= i}) = k
    IN [k \in 1..(Cardinality(breaks) + 1) |->
           SubSeq(s, BreakAt(k - 1) + 1, BreakAt(k) - 1)]

\* '\n'.join(list)
RECURSIVE Join(_)
Join(ls) ==
    IF Len(ls) = 0 THEN <<>>
    ELSE IF Len(ls) = 1 THEN ls[1]
    ELSE ls[1] \o <<NL>> \o Join(Tail(ls))

\* list[a:b] for 0 <= a, 0 <= b (Python slice, 0-based, end exclusive)
Slice(ls, a, b) ==
    LET hi == Min2(b, Len(ls))
    IN IF a >= hi THEN <<>> ELSE SubSeq(ls, a + 1, hi)

Digits == <<"0", "1", "2", "3", "4", "5", "6", "7", "8", "9">>

\* str(n) as a sequence of characters, n >= 0
RECURSIVE IntToChars(_)
IntToChars(n) ==
    IF n < 10 THEN <<Digits[n + 1]>>
    ELSE Append(IntToChars(n \div 10), Digits[(n % 10) + 1])

\* str(n) as a string, n >= 0
RECURSIVE IntToStr(_)
IntToStr(n) ==
    IF n < 10 THEN Digits[n + 1]
    ELSE IntToStr(n \div 10) \o Digits[(n % 10) + 1]

\* the ASCII letters, lower and upper case
LowerCase == <<"a", "b", "c", "d", "e", "f", "g", "h", "i", "j", "k", "l", "m", "n", "o", "p", "q", "r", "s", "t", "u", "v", "w", "x", "y", "z">>
UpperCase == <<"A", "B", "C", "D", "E", "F", "G", "H", "I", "J", "K", "L", "M", "N", "O", "P", "Q", "R", "S", "T", "U", "V", "W", "X", "Y", "Z">>

IsAlpha(c) == \E k \in 1..26 : c = LowerCase[k] \/ c = UpperCase[k]

LetterIndex(c) == CHOOSE k \in 1..26 : c = LowerCase[k] \/ c = UpperCase[k]

UpperLetters == {UpperCase[k] : k \in 1..26}

\* the lower-case letter of each upper-case letter
LowerOf ==
    [c \in UpperLetters |-> LowerCase[CHOOSE k \in 1..26 : UpperCase[k] = c]]

\* str.lower()
Lower(text) ==
    [k \in 1..Len(text) |->
        IF text[k] \in UpperLetters THEN LowerOf[text[k]] ELSE text[k]]

----------------------------------------------------------------------------
(* TokenEstimator *)

\* estimate_tokens with encoder = None (tiktoken not installed)
estimate_tokens(text) == Len(text) \div 4

----------------------------------------------------------------------------
(* TreeSitterChunker._fallback_chunking *)

\* a fallback block that does not say where it came from
BlockUnmarked(n, first, last, text) ==
    [type |-> "block", name |-> "block_" \o IntToStr(n),
     start_line |-> first, end_line |-> last, text |-> text,
     capture_name |-> "fallback"]

Block(n, first, last, text) ==
    [type |-> "block", name |-> "block_" \o IntToStr(n),
     start_line |-> first, end_line |-> last, text |-> text,
     capture_name |-> "fallback", parser_fallback |-> TRUE]

\* a test that closes the accumulator as soon as the limit is reached
ClosesChunkAtLimit(current_tokens, line_tokens, current_chunk, maxTok) ==
    current_tokens + line_tokens >= maxTok /\ Len(current_chunk) > 0

\* a test that looks at the accumulated tokens only, not at the new line
ClosesChunkWhenFull(current_tokens, line_tokens, current_chunk, maxTok) ==
    current_tokens > maxTok /\ Len(current_chunk) > 0

\* line 197: the accumulated lines are emitted before `line` is taken
ClosesChunk(current_tokens, line_tokens, current_chunk, maxTok) ==
    current_tokens + line_tokens > maxTok /\ Len(current_chunk) > 0

\* variant that forgets the final accumulator (no "Add final chunk" step)
fallback_chunking_drops_tail(text, maxTok) ==
    LET lines == Split(text)
        RECURSIVE Loop(_, _, _, _)
        Loop(i, out, current_chunk, current_tokens) ==
            IF i > Len(lines) THEN out
            ELSE LET line == lines[i]
                     line_tokens == estimate_tokens(line)
                 IN IF ClosesChunk(current_tokens, line_tokens,
                                   current_chunk, maxTok)
                    THEN Loop(i + 1,
                              Append(out, Block(Len(out) + 1,
                                                i - Len(current_chunk), i - 1,
                                                Join(current_chunk))),
                              <<line>>, line_tokens)
                    ELSE Loop(i + 1, out, Append(current_chunk, line),
                              current_tokens + line_tokens)
    IN Loop(1, <<>>, <<>>, 0)

_fallback_chunking(text, maxTok) ==
    LET lines == Split(text)
        RECURSIVE Loop(_, _, _, _)
        Loop(i, out, current_chunk, current_tokens) ==
            IF i > Len(lines)
            THEN IF Len(current_chunk) > 0
                 THEN Append(out, Block(Len(out) + 1,
                                        Len(lines) - Len(current_chunk) + 1,
                                        Len(lines), Join(current_chunk)))
                 ELSE out
            ELSE LET line == lines[i]
                     line_tokens == estimate_tokens(line)
                 IN IF ClosesChunk(current_tokens, line_tokens,
                                   current_chunk, maxTok)
                    THEN Loop(i + 1,
                              Append(out, Block(Len(out) + 1,
                                                i - Len(current_chunk), i - 1,
                                                Join(current_chunk))),
                              <<line>>, line_tokens)
                    ELSE Loop(i + 1, out, Append(current_chunk, line),
                              current_tokens + line_tokens)
    IN Loop(1, <<>>, <<>>, 0)

----------------------------------------------------------------------------
(* TreeSitterChunker._merge_small_chunks *)

\* dict.get(key, default)
Get(dict, key, default) ==
    IF key \in DOMAIN dict THEN dict[key] ELSE default

\* d[key] raises KeyError when the dict has no such key
KeyError(dict, key) == key \notin DOMAIN dict

\* a merged chunk that ends where its first half ended
MergedChunkEndsEarly(current, next_chunk) ==
    [type |-> "merged",
     name |-> current.name \o "_merged_" \o next_chunk.name,
     start_line |-> current.start_line, end_line |-> current.end_line,
     text |-> current.text \o <<NL>> \o next_chunk.text,
     capture_name |-> "merged",
     parser_fallback |-> Get(current, "parser_fallback", FALSE)
                         \/ Get(next_chunk, "parser_fallback", FALSE)]

MergedChunk(current, next_chunk) ==
    [type |-> "merged",
     name |-> current.name \o "_merged_" \o next_chunk.name,
     start_line |-> current.start_line, end_line |-> next_chunk.end_line,
     text |-> current.text \o <<NL>> \o next_chunk.text,
     capture_name |-> "merged",
     parser_fallback |-> Get(current, "parser_fallback", FALSE)
                         \/ Get(next_chunk, "parser_fallback", FALSE)]

\* building the merged dict reads current['name'] and next_chunk['name']
MergedChunkRaises(current, next_chunk) ==
    KeyError(current, "name") \/ KeyError(next_chunk, "name")

\* variant whose bound is off by one: the last pair is never merged
MergeHereSkipsLastPair(cs, i, minTok, maxTok) ==
    /\ estimate_tokens(cs[i].text) < minTok
    /\ i < Len(cs) - 1
    /\ estimate_tokens(cs[i].text) + estimate_tokens(cs[i + 1].text) <= maxTok

\* the test of lines 242 and 247: span i is folded into span i + 1
MergeHere(cs, i, minTok, maxTok) ==
    /\ estimate_tokens(cs[i].text) < minTok
    /\ i < Len(cs)
    /\ estimate_tokens(cs[i].text) + estimate_tokens(cs[i + 1].text) <= maxTok

\* a loop that steps over one span only after a merge, so the second half
\* of a merge is looked at again
MergeLoopStepsOne(cs, minTok, maxTok) ==
    LET RECURSIVE Loop(_, _, _)
        Loop(i, merged, visits) ==
            IF i > Len(cs)
            THEN [merged |-> merged, visits |-> visits, raised |-> FALSE]
            ELSE IF MergeHere(cs, i, minTok, maxTok)
                 THEN IF MergedChunkRaises(cs[i], cs[i + 1])
                      THEN [merged |-> merged, visits |-> visits,
                            raised |-> TRUE]
                      ELSE Loop(i + 1,
                                Append(merged, MergedChunk(cs[i], cs[i + 1])),
                                Append(visits, i))
                 ELSE Loop(i + 1, Append(merged, cs[i]), Append(visits, i))
    IN Loop(1, <<>>, <<>>)

\* the while loop; visits[j] is the input index i at which output j was made,
\* raised tells that an exception ended the loop
MergeLoop(cs, minTok, maxTok) ==
    LET RECURSIVE Loop(_, _, _)
        Loop(i, merged, visits) ==
            IF i > Len(cs)
            THEN [merged |-> merged, visits |-> visits, raised |-> FALSE]
            ELSE IF MergeHere(cs, i, minTok, maxTok)
                 THEN IF MergedChunkRaises(cs[i], cs[i + 1])
                      THEN [merged |-> merged, visits |-> visits,
                            raised |-> TRUE]
                      ELSE Loop(i + 2,
                                Append(merged, MergedChunk(cs[i], cs[i + 1])),
                                Append(visits, i))
                 ELSE Loop(i + 1, Append(merged, cs[i]), Append(visits, i))
    IN Loop(1, <<>>, <<>>)

_merge_small_chunks(cs, minTok, maxTok) ==
    IF Len(cs) = 0 THEN cs ELSE MergeLoop(cs, minTok, maxTok).merged

\* the call ends with an exception instead of a list
merge_small_chunks_raises(cs, minTok, maxTok) ==
    Len(cs) > 0 /\ MergeLoop(cs, minTok, maxTok).raised

\* for each output chunk, the index of the input span it starts with
merge_visits(cs, minTok, maxTok) == MergeLoop(cs, minTok, maxTok).visits

----------------------------------------------------------------------------
(* TreeSitterChunker._add_overlap *)

LineNumbers(lo, hi) == [j \in 1..Max2(0, hi - lo + 1) |-> lo + j - 1]

\* One iteration of the loop over enumerate(chunks).  The chunk dicts are
\* mutated in place, so cur[i - 1] is read as the iteration before left it.
\* prepended / appended are the 1-based numbers of the lines that were taken.
\* a step that appends a new dict of text, lines, type and name instead
\* of the dict it was given
OverlapStepBuildsDict(cur, i, lines, k) ==
    LET chunk == cur[i]
        prev_end == cur[i - 1].end_line
        overlap_start == Max2(0, prev_end - k)
        withPrev ==
            IF i > 1
            THEN [chunk EXCEPT
                    !.text = Join(Slice(lines, overlap_start, prev_end))
                             \o <<NL>> \o @,
                    !.start_line = overlap_start + 1]
            ELSE chunk
        next_start == cur[i + 1].start_line - 1
        overlap_end == Min2(Len(lines), next_start + k)
        withNext ==
            IF i < Len(cur)
            THEN [withPrev EXCEPT
                    !.text = @ \o <<NL>>
                             \o Join(Slice(lines, next_start, overlap_end)),
                    !.end_line = overlap_end]
            ELSE withPrev
    IN [chunk |-> [type |-> withNext.type, name |-> withNext.name,
                   start_line |-> withNext.start_line,
                   end_line |-> withNext.end_line, text |-> withNext.text,
                   capture_name |-> withNext.capture_name],
        prepended |-> IF i > 1
                      THEN LineNumbers(overlap_start + 1,
                                       Min2(prev_end, Len(lines)))
                      ELSE <<>>,
        appended |-> IF i < Len(cur)
                     THEN LineNumbers(next_start + 1, overlap_end)
                     ELSE <<>>]

OverlapStep(cur, i, lines, k) ==
    LET chunk == cur[i]
        prev_end == cur[i - 1].end_line
        overlap_start == Max2(0, prev_end - k)
        withPrev ==
            IF i > 1
            THEN [chunk EXCEPT
                    !.text = Join(Slice(lines, overlap_start, prev_end))
                             \o <<NL>> \o @,
                    !.start_line = overlap_start + 1]
            ELSE chunk
        next_start == cur[i + 1].start_line - 1
        overlap_end == Min2(Len(lines), next_start + k)
        withNext ==
            IF i < Len(cur)
            THEN [withPrev EXCEPT
                    !.text = @ \o <<NL>>
                             \o Join(Slice(lines, next_start, overlap_end)),
                    !.end_line = overlap_end]
            ELSE withPrev
    IN [chunk |-> withNext,
        prepended |-> IF i > 1
                      THEN LineNumbers(overlap_start + 1,
                                       Min2(prev_end, Len(lines)))
                      ELSE <<>>,
        appended |-> IF i < Len(cur)
                     THEN LineNumbers(next_start + 1, overlap_end)
                     ELSE <<>>]

\* a loop that takes a line for every two tokens of overlap
OverlapLoopLinePerTwoTokens(cs, text, overlapTok) ==
    LET lines == Split(text)
        k == overlapTok \div 2
        RECURSIVE Loop(_, _, _)
        Loop(i, cur, log) ==
            IF i > Len(cs) THEN [chunks |-> cur, log |-> log]
            ELSE LET step == OverlapStep(cur, i, lines, k)
                 IN Loop(i + 1, [cur EXCEPT ![i] = step.chunk],
                         Append(log, [prepended |-> step.prepended,
                                      appended |-> step.appended]))
    IN Loop(1, cs, <<>>)

\* the whole loop: the list of dicts after iteration i, and what each took
OverlapLoop(cs, text, overlapTok) ==
    LET lines == Split(text)
        k == overlapTok \div 4
        RECURSIVE Loop(_, _, _)
        Loop(i, cur, log) ==
            IF i > Len(cs) THEN [chunks |-> cur, log |-> log]
            ELSE LET step == OverlapStep(cur, i, lines, k)
                 IN Loop(i + 1, [cur EXCEPT ![i] = step.chunk],
                         Append(log, [prepended |-> step.prepended,
                                      appended |-> step.appended]))
    IN Loop(1, cs, <<>>)

NoOverlapLog(cs) == [i \in 1..Len(cs) |-> [prepended |-> <<>>, appended |-> <<>>]]

\* variant whose early return hands back the still empty result list
add_overlap_returns_empty(cs, text, overlapTok) ==
    IF Len(cs) <= 1 THEN <<>>
    ELSE OverlapLoop(cs, text, overlapTok).chunks

_add_overlap(cs, text, overlapTok) ==
    IF Len(cs) <= 1 THEN cs
    ELSE OverlapLoop(cs, text, overlapTok).chunks

\* the slices taken by _add_overlap, chunk by chunk
overlap_slices(cs, text, overlapTok) ==
    IF Len(cs) <= 1 THEN NoOverlapLog(cs)
    ELSE OverlapLoop(cs, text, overlapTok).log

----------------------------------------------------------------------------
(* TreeSitterChunker._get_language *)

\* index of the last '.' of a name, 0 when there is none
LastDot(p) ==
    LET dots == {i \in 1..Len(p) : p[i] = "."}
    IN IF dots = {} THEN 0 ELSE CHOOSE i \in dots : \A j \in dots : j <= i

\* Path(filepath).name: the last component; pathlib drops slashes at the
\* end and components that are a single dot
RECURSIVE Name(_)
Name(p) ==
    IF Len(p) > 0 /\ p[Len(p)] = "/" THEN Name(SubSeq(p, 1, Len(p) - 1))
    ELSE IF Len(p) > 1 /\ p[Len(p)] = "." /\ p[Len(p) - 1] = "/"
    THEN Name(SubSeq(p, 1, Len(p) - 2))
    ELSE IF p = <<".">> THEN <<>>
    ELSE LET slashes == {i \in 1..Len(p) : p[i] = "/"}
             last == IF slashes = {} THEN 0
                     ELSE CHOOSE i \in slashes : \A j \in slashes : j <= i
         IN SubSeq(p, last + 1, Len(p))

\* a suffix taken from the first dot of the name instead of the last
SuffixFromFirstDot(p) ==
    LET name == Name(p)
        dots == {i \in 1..Len(name) : name[i] = "."}
        first == IF dots = {} THEN 0
                 ELSE CHOOSE i \in dots : \A j \in dots : i <= j
    IN IF first <= 1 \/ first = Len(name) THEN <<>>
       ELSE SubSeq(name, first, Len(name))

\* Path(filepath).suffix: from the last dot of the name, unless that dot
\* is the first or the last character of the name
Suffix(p) ==
    LET name == Name(p)
        i == LastDot(name)
    IN IF i <= 1 \/ i = Len(name) THEN <<>>
       ELSE SubSeq(name, i, Len(name))

_get_language(p) ==
    LET ext == Lower(Suffix(p))
    IN CASE ext = <<".", "p", "y">> -> "python"
         [] ext = <<".", "j", "s">> -> "javascript"
         [] ext = <<".", "t", "s">> -> "typescript"
         [] ext = <<".", "j", "s", "x">> -> "javascript"
         [] ext = <<".", "t", "s", "x">> -> "typescript"
         [] ext = <<".", "j", "a", "v", "a">> -> "java"
         [] OTHER -> "unknown"

----------------------------------------------------------------------------
(* TreeSitterChunker.create_chunk_id / create_code_fingerprint *)

Alphabet == <<NL, ":", ".", "0", "1", "2", "3", "4", "5", "6", "7", "8", "9",
              "a", "b", "c", "d", "e", "f", "g", "h", "n", "p", "s", "t",
              "x", "y">>

\* the code of each character of the alphabet
CharCode == [c \in {Alphabet[i] : i \in 1..Len(Alphabet)} |->
               CHOOSE i \in 1..Len(Alphabet) : Alphabet[i] = c]

HexDigits == <<"0", "1", "2", "3", "4", "5", "6", "7", "8", "9",
               "a", "b", "c", "d", "e", "f">>

\* stand-in for the 160-bit SHA-1 state: a 16-bit rolling checksum
Checksum(s, seed) ==
    LET RECURSIVE Go(_, _)
        Go(i, h) ==
            IF i > Len(s) THEN h
            ELSE Go(i + 1, (h * 31 + CharCode[s[i]]) % 65521)
    IN Go(1, seed)

\* hashlib.sha1(content.encode()).hexdigest(): 40 lower-case hex digits
Sha1Hex(s) ==
    LET h == Checksum(s, 7)
    IN [i \in 1..40 |->
          IF i < 37 THEN "0"
          ELSE HexDigits[((h \div (16 ^ (40 - i))) % 16) + 1]]

Sha1Prefix == <<"s", "h", "a", "1", ":">>

\* variant that leaves end_line out of the hashed string
chunk_id_content_without_end(p, start_line, end_line, text) ==
    p \o <<":">> \o IntToChars(start_line) \o <<":">> \o text

\* f"{filepath}:{start_line}:{end_line}:{text}" of create_chunk_id
chunk_id_content(p, start_line, end_line, text) ==
    p \o <<":">> \o IntToChars(start_line) \o <<":">>
      \o IntToChars(end_line) \o <<":">> \o text

create_chunk_id(p, start_line, end_line, text) ==
    Sha1Prefix \o Sha1Hex(chunk_id_content(p, start_line, end_line, text))

\* variant that hashes the text alone
fingerprint_content_text_only(p, start_line, end_line, text) == text

\* f"{filepath}:{start_line}:{end_line}:{text}" of create_code_fingerprint
fingerprint_content(p, start_line, end_line, text) ==
    p \o <<":">> \o IntToChars(start_line) \o <<":">>
      \o IntToChars(end_line) \o <<":">> \o text

create_code_fingerprint(p, start_line, end_line, text) ==
    Sha1Hex(fingerprint_content(p, start_line, end_line, text))

----------------------------------------------------------------------------
(* RepoChunker._write_chunks *)

\* variant that passes start_line twice to create_chunk_id
ChunkDataIdFromStartTwice(p, chunk, language) ==
    [id |-> create_chunk_id(p, chunk.start_line, chunk.start_line, chunk.text),
     filepath |-> p,
     language |-> language,
     node_type |-> chunk.type,
     start_line |-> chunk.start_line,
     end_line |-> chunk.end_line,
     text |-> chunk.text,
     tokens_estimate |-> estimate_tokens(chunk.text),
     code_fingerprint |-> create_code_fingerprint(p, chunk.start_line,
                                                  chunk.end_line, chunk.text),
     parser_fallback |-> Get(chunk, "parser_fallback", FALSE)]

ChunkData(p, chunk, language) ==
    [id |-> create_chunk_id(p, chunk.start_line, chunk.end_line, chunk.text),
     filepath |-> p,
     language |-> language,
     node_type |-> chunk.type,
     start_line |-> chunk.start_line,
     end_line |-> chunk.end_line,
     text |-> chunk.text,
     tokens_estimate |-> estimate_tokens(chunk.text),
     code_fingerprint |-> create_code_fingerprint(p, chunk.start_line,
                                                  chunk.end_line, chunk.text),
     parser_fallback |-> Get(chunk, "parser_fallback", FALSE)]

\* the records appended to chunks.jsonl, one per chunk, in order
_write_chunks(p, cs, language) ==
    [i \in 1..Len(cs) |-> ChunkData(p, cs[i], language)]

----------------------------------------------------------------------------
(* Inputs *)

LineChoices == {<<>>, <<"a", "b">>, <<"a", "b", "c", "d", "e", "f", "g", "h">>}

\* every text of 1..MaxLines lines ('' is the text of one empty line)
Contents ==
    {Join(ls) : ls \in UNION {[1..n -> LineChoices] : n \in 1..MaxLines}}

Paths == {<<"a", ".", "p", "y">>, <<"n", ".", "t", "x", "t">>}

Languages == {"python", "javascript", "typescript", "java", "unknown"}

OverlapChoices == {4 * k + (k % 2) : k \in 0..MaxOverlapLines}

----------------------------------------------------------------------------
(* Structural parse: what the capture query may yield for a file *)

Node(first, last, lines) ==
    [type |-> "function_definition", name |-> "function",
     start_line |-> first, end_line |-> last,
     text |-> Join(SubSeq(lines, first, last)),
     capture_name |-> "function"]

\* consecutive nodes first..c1, c1+1..c2, ... for the cut points in cuts
RECURSIVE CutNodes(_, _, _)
CutNodes(first, cuts, lines) ==
    IF first > Len(lines) THEN <<>>
    ELSE LET later == {c \in cuts : c >= first}
             last == IF later = {} THEN Len(lines)
                     ELSE CHOOSE c \in later : \A d \in later : c <= d
         IN <<Node(first, last, lines)>> \o CutNodes(last + 1, cuts, lines)

\* a syntax node starts and ends on a token, never on an empty line
WellFormedNodes(nodes, lines) ==
    \A i \in 1..Len(nodes) :
        /\ Len(lines[nodes[i].start_line]) > 0
        /\ Len(lines[nodes[i].end_line]) > 0

\* capture lists: none, consecutive top-level nodes, or a node with a nested one
CaptureChoices(lines) ==
    {nodes \in
        {<<>>}
        \cup {CutNodes(1, cuts, lines) : cuts \in SUBSET (1..(Len(lines) - 1))}
        \cup {<<Node(1, Len(lines), lines), Node(j, Len(lines), lines)>> :
                j \in 2..Len(lines)} :
     WellFormedNodes(nodes, lines)}

----------------------------------------------------------------------------
(* RepoChunker.process_file and TreeSitterChunker.chunk_file, step by step *)

InitStats ==
    [total_files |-> 0, parsed_files |-> 0, failed_files |-> 0,
     total_chunks |-> 0, chunks_by_language |-> [l \in Languages |-> 0]]

\* a RepoChunker that has processed nothing
InitBaseline ==
    [stats |-> InitStats, records |-> <<>>, parse_errors |-> <<>>]

\* nothing is summarised and no thread runs
SideInit ==
    /\ summary_args = <<>>
    /\ summary = <<>>
    /\ threads = <<>>
    /\ call_args = <<>>
    /\ call_result = <<>>

Init ==
    /\ filepath \in Paths
    /\ content \in Contents
    /\ parsers \in SUBSET ({_get_language(filepath)} \ {"unknown"})
    /\ max_tokens \in 0..MaxTokensBound
    /\ min_tokens \in 0..MaxTokensBound
    /\ overlap_tokens \in OverlapChoices
    /\ pc = "idle"
    /\ parse_errors = <<>>
    /\ source = "none"
    /\ spans = <<>>
    /\ normalized = <<>>
    /\ chunks = <<>>
    /\ overlap_log = <<>>
    /\ records = <<>>
    /\ stats = InitStats
    /\ id_args = <<>>
    /\ ids = <<>>
    /\ fingerprints = <<>>
    /\ baseline = InitBaseline
    /\ SideInit

\* a failed read that resets the count of parsed files
CountReadForgetsParsed(st, readable) ==
    IF readable
    THEN [st EXCEPT !.total_files = @ + 1]
    ELSE [st EXCEPT !.total_files = @ + 1, !.failed_files = @ + 1,
                    !.parsed_files = 0]

\* process_file counts the file, then reads it (lines 414-418)
CountRead(st, readable) ==
    IF readable
    THEN [st EXCEPT !.total_files = @ + 1]
    ELSE [st EXCEPT !.total_files = @ + 1, !.failed_files = @ + 1]

\* process_file up to the read of the file: it is counted, then read
ReadFile ==
    /\ pc = "idle"
    /\ \E readable \in BOOLEAN :
         /\ pc' = IF readable THEN "parse" ELSE "done"
         /\ stats' = CountRead(stats, readable)
         /\ baseline' = IF readable
                        THEN [baseline EXCEPT
                                !.stats = CountRead(@, readable)]
                        ELSE baseline
    /\ UNCHANGED <<filepath, content, parsers, max_tokens, min_tokens,
                   overlap_tokens, parse_errors, source, spans, normalized,
                   chunks, overlap_log, records>>
    /\ UNCHANGED <<idVars, sideVars>>

\* the diagnostics _parse_with_tree_sitter and _extract_nodes_with_query
\* append when the parser or the query raises
ParseDiagnostics(language) ==
    {"Tree-sitter parsing failed for " \o language,
     "Query execution failed for " \o language}

\* an except clause that records its diagnostic twice
LogParseErrorTwice(errors, diagnostic) ==
    Append(Append(errors, diagnostic), diagnostic)

\* self.parse_errors.append(...) of the two except clauses
LogParseError(errors, diagnostic) == Append(errors, diagnostic)

\* chunk_file: _parse_with_tree_sitter and _extract_nodes_with_query
ParseWithTreeSitter ==
    /\ pc = "parse"
    /\ LET language == _get_language(filepath)
       IN IF language \notin parsers
          THEN /\ pc' = "fallback"
               /\ UNCHANGED <<parse_errors, source, spans, baseline>>
          ELSE \/ \E diagnostic \in ParseDiagnostics(language) :
                    /\ parse_errors' = LogParseError(parse_errors, diagnostic)
                    /\ baseline' = [baseline EXCEPT !.parse_errors =
                                       LogParseError(@, diagnostic)]
                    /\ pc' = "fallback"
                    /\ UNCHANGED <<source, spans>>
               \/ \E nodes \in CaptureChoices(Split(content)) :
                    IF Len(nodes) = 0
                    THEN /\ pc' = "fallback"
                         /\ UNCHANGED <<parse_errors, source, spans, baseline>>
                    ELSE /\ pc' = "merge"
                         /\ source' = "parsed"
                         /\ spans' = nodes
                         /\ UNCHANGED <<parse_errors, baseline>>
    /\ UNCHANGED <<filepath, content, parsers, max_tokens, min_tokens,
                   overlap_tokens, normalized, chunks, overlap_log, records,
                   stats>>
    /\ UNCHANGED <<idVars, sideVars>>

\* chunk_file: no nodes, so the file is segmented line by line
FallbackChunking ==
    /\ pc = "fallback"
    /\ spans' = _fallback_chunking(content, max_tokens)
    /\ source' = "fallback"
    /\ pc' = "merge"
    /\ UNCHANGED <<filepath, content, parsers, max_tokens, min_tokens,
                   overlap_tokens, parse_errors, normalized, chunks,
                   overlap_log, records, stats>>
    /\ UNCHANGED <<baseline, idVars, sideVars>>

\* chunk_file: nodes = self._merge_small_chunks(nodes)
MergeSmallChunks ==
    /\ pc = "merge"
    /\ normalized' = _merge_small_chunks(spans, min_tokens, max_tokens)
    /\ pc' = "overlap"
    /\ UNCHANGED <<filepath, content, parsers, max_tokens, min_tokens,
                   overlap_tokens, parse_errors, source, spans, chunks,
                   overlap_log, records, stats>>
    /\ UNCHANGED <<baseline, idVars, sideVars>>

\* chunk_file: nodes = self._add_overlap(nodes, content)
AddOverlap ==
    /\ pc = "overlap"
    /\ chunks' = _add_overlap(normalized, content, overlap_tokens)
    /\ overlap_log' = overlap_slices(normalized, content, overlap_tokens)
    /\ pc' = "write"
    /\ UNCHANGED <<filepath, content, parsers, max_tokens, min_tokens,
                   overlap_tokens, parse_errors, source, spans, normalized,
                   records, stats>>
    /\ UNCHANGED <<baseline, idVars, sideVars>>

\* Where _write_chunks may raise (an OSError of open or f.write):
\* -1 never, 0 when chunks.jsonl is opened, j while record j is written.
WriteFailures(cs) == (-1)..Len(cs)

\* the number of records on chunks.jsonl when _write_chunks has ended
RecordsWritten(cs, fail_at) ==
    IF fail_at = -1 THEN Len(cs) ELSE Max2(0, fail_at - 1)

\* lines 426-443: the counters after a file that chunk_file gave n chunks
CountFile(st, n, language, fail_at) ==
    IF n > 0
    THEN [st EXCEPT
            !.parsed_files = @ + 1,
            !.chunks_by_language[language] = @ + n,
            !.total_chunks = @ + (IF fail_at = -1 THEN n ELSE fail_at),
            !.failed_files = IF fail_at = -1 THEN @ ELSE @ + 1]
    ELSE [st EXCEPT !.failed_files = @ + 1]

\* of the lines _write_chunks formats, those it appends to chunks.jsonl
\* before it ends
NewRecords(lines, fail_at) ==
    SubSeq(lines, 1, RecordsWritten(lines, fail_at))

\* process_file after chunk_file: count the file and write its records;
\* an exception of _write_chunks lands in the except clause of line 441
FinishFile ==
    /\ pc = "write"
    /\ \E language \in {_get_language(filepath)} :
          \E lines \in {_write_chunks(filepath, chunks, language)} :
          \E fail_at \in IF Len(chunks) > 0 THEN WriteFailures(chunks)
                                            ELSE {-1} :
            LET new == NewRecords(lines, fail_at)
            IN /\ records' = records \o new
               /\ stats' = CountFile(stats, Len(chunks), language, fail_at)
               /\ baseline' = [baseline EXCEPT
                     !.records = @ \o new,
                     !.stats = CountFile(@, Len(chunks), language, fail_at)]
    /\ pc' = "done"
    /\ UNCHANGED <<filepath, content, parsers, max_tokens, min_tokens,
                   overlap_tokens, parse_errors, source, spans, normalized,
                   chunks, overlap_log>>
    /\ UNCHANGED <<idVars, sideVars>>

Next ==
    \/ ReadFile
    \/ ParseWithTreeSitter
    \/ FallbackChunking
    \/ MergeSmallChunks
    \/ AddOverlap
    \/ FinishFile

Spec == Init /\ [][Next]_vars

----------------------------------------------------------------------------
(* The identity functions on their own: two argument tuples, each hashed *)

IdPaths == {<<"a">>, <<"a", ":", "1">>}

IdTexts == {<<"x">>, <<"3", ":", "x">>}

IdTuples ==
    [path : IdPaths, start_line : 1..MaxIdLine, end_line : 1..MaxIdLine,
     text : IdTexts]

InitId ==
    /\ id_args \in [1..2 -> IdTuples]
    /\ ids = <<>>
    /\ fingerprints = <<>>
    /\ filepath = <<>>
    /\ content = <<>>
    /\ parsers = {}
    /\ max_tokens = 0
    /\ min_tokens = 0
    /\ overlap_tokens = 0
    /\ pc = "identity"
    /\ parse_errors = <<>>
    /\ source = "none"
    /\ spans = <<>>
    /\ normalized = <<>>
    /\ chunks = <<>>
    /\ overlap_log = <<>>
    /\ records = <<>>
    /\ stats = InitStats
    /\ baseline = InitBaseline
    /\ SideInit

CreateChunkId ==
    /\ pc = "identity"
    /\ ids = <<>>
    /\ ids' = [k \in 1..2 |->
                 create_chunk_id(id_args[k].path, id_args[k].start_line,
                                 id_args[k].end_line, id_args[k].text)]
    /\ UNCHANGED <<id_args, fingerprints>>
    /\ UNCHANGED <<pipeVars, baseline, sideVars>>

CreateCodeFingerprint ==
    /\ pc = "identity"
    /\ fingerprints = <<>>
    /\ fingerprints' = [k \in 1..2 |->
                          create_code_fingerprint(id_args[k].path,
                              id_args[k].start_line, id_args[k].end_line,
                              id_args[k].text)]
    /\ UNCHANGED <<id_args, ids>>
    /\ UNCHANGED <<pipeVars, baseline, sideVars>>

NextId ==
    \/ CreateChunkId
    \/ CreateCodeFingerprint

SpecId == InitId /\ [][NextId]_vars

----------------------------------------------------------------------------
(* TreeSitterChunker._merge_small_chunks called on a list of spans *)

\* a text of one line with the given token estimate
TextOfTokens(n) == [j \in 1..(4 * n) |-> "x"]

\* the estimates of the spans handed over
SpanTokens == {5, 100}

\* fallback blocks, or dicts with text, start_line, end_line and type only
SpanKinds == {"block", "bare"}

\* span number j of a list: it covers line j
SpanOf(j, kind, tokens) ==
    IF kind = "block"
    THEN Block(j, j, j, TextOfTokens(tokens))
    ELSE [type |-> "block", start_line |-> j, end_line |-> j,
          text |-> TextOfTokens(tokens)]

SpanLists ==
    UNION {{[j \in 1..n |-> SpanOf(j, kinds[j], tokens[j])] :
               kinds \in [1..n -> SpanKinds], tokens \in [1..n -> SpanTokens]} :
           n \in 0..MaxSpans}

\* min_tokens and max_tokens of the chunker
MergeConfigs ==
    {[min_tokens |-> 10, max_tokens |-> 1000],
     [min_tokens |-> 50, max_tokens |-> 10000],
     [min_tokens |-> 10, max_tokens |-> 100]}

InitMerge ==
    /\ spans \in SpanLists
    /\ \E c \in MergeConfigs :
          min_tokens = c.min_tokens /\ max_tokens = c.max_tokens
    /\ pc = "merge_call"
    /\ filepath = <<>>
    /\ content = <<>>
    /\ parsers = {}
    /\ overlap_tokens = 0
    /\ parse_errors = <<>>
    /\ source = "none"
    /\ normalized = <<>>
    /\ chunks = <<>>
    /\ overlap_log = <<>>
    /\ records = <<>>
    /\ stats = InitStats
    /\ id_args = <<>>
    /\ ids = <<>>
    /\ fingerprints = <<>>
    /\ baseline = InitBaseline
    /\ SideInit

\* chunker._merge_small_chunks(spans): a list comes back or an exception
CallMergeSmallChunks ==
    /\ pc = "merge_call"
    /\ IF merge_small_chunks_raises(spans, min_tokens, max_tokens)
       THEN /\ pc' = "merge_raised"
            /\ UNCHANGED normalized
       ELSE /\ pc' = "merge_returned"
            /\ normalized' = _merge_small_chunks(spans, min_tokens, max_tokens)
    /\ UNCHANGED <<filepath, content, parsers, max_tokens, min_tokens,
                   overlap_tokens, parse_errors, source, spans, chunks,
                   overlap_log, records, stats, baseline>>
    /\ UNCHANGED <<idVars, sideVars>>

NextMerge == CallMergeSmallChunks

SpecMerge == InitMerge /\ [][NextMerge]_vars

----------------------------------------------------------------------------
(* TreeSitterChunker._get_language called on a path *)

\* directory parts, one of them with a dot and a known extension
PathDirs == {<<>>, <<"d", ".", "p", "y", "/">>, <<"x", "/", "y", ".", "j", "s", "/">>}

\* what stands before the extension: a stem, nothing, a stem with a dot
PathStems == {<<"a">>, <<>>, <<"a", ".", "j", "s">>, <<".">>}

\* extensions of the table in either case, other ones, a lone dot, none
PathExtensions ==
    {<<>>, <<".", "p", "y">>,
     <<".", "j", "s">>,
     <<".", "j", "s", "x">>,
     <<".", "t", "s">>,
     <<".", "t", "s", "x">>,
     <<".", "j", "a", "v", "a">>,
     <<".", "P", "Y">>,
     <<".", "J", "s">>,
     <<".", "J", "a", "v", "a">>,
     <<".", "t", "x", "t">>,
     <<".", "p", "y", "c">>,
     <<".", "p">>,
     <<".">>}

LanguagePaths ==
    {dir \o stem \o ext :
        dir \in PathDirs, stem \in PathStems, ext \in PathExtensions}

InitLanguage ==
    /\ call_args \in LanguagePaths
    /\ call_result = <<>>
    /\ summary_args = <<>>
    /\ summary = <<>>
    /\ threads = <<>>
    /\ pc = "language_call"
    /\ filepath = <<>>
    /\ content = <<>>
    /\ parsers = {}
    /\ max_tokens = 0
    /\ min_tokens = 0
    /\ overlap_tokens = 0
    /\ parse_errors = <<>>
    /\ source = "none"
    /\ spans = <<>>
    /\ normalized = <<>>
    /\ chunks = <<>>
    /\ overlap_log = <<>>
    /\ records = <<>>
    /\ stats = InitStats
    /\ id_args = <<>>
    /\ ids = <<>>
    /\ fingerprints = <<>>
    /\ baseline = InitBaseline

GetLanguage ==
    /\ pc = "language_call"
    /\ call_result' = _get_language(call_args)
    /\ pc' = "language_returned"
    /\ UNCHANGED <<filepath, content, parsers, max_tokens, min_tokens,
                   overlap_tokens, parse_errors, source, spans, normalized,
                   chunks, overlap_log, records, stats, baseline>>
    /\ UNCHANGED <<idVars, summary_args, summary, threads, call_args>>

NextLanguage == GetLanguage

SpecLanguage == InitLanguage /\ [][NextLanguage]_vars

----------------------------------------------------------------------------
(* TreeSitterChunker.generate_summary *)

Whitespace == {" ", "\t", NL}

\* str.strip(): whitespace is taken off both ends
RECURSIVE LStrip(_)
LStrip(text) ==
    IF Len(text) > 0 /\ text[1] \in Whitespace THEN LStrip(Tail(text))
    ELSE text

RECURSIVE RStrip(_)
RStrip(text) ==
    IF Len(text) > 0 /\ text[Len(text)] \in Whitespace
    THEN RStrip(SubSeq(text, 1, Len(text) - 1))
    ELSE text

Strip(text) == RStrip(LStrip(text))

\* text[:n]
Take(text, n) == SubSeq(text, 1, Min2(n, Len(text)))

\* str.title(): a letter after a non-letter is upper case, the others lower
Title(word) ==
    [k \in 1..Len(word) |->
        IF ~IsAlpha(word[k]) THEN word[k]
        ELSE IF k = 1 \/ ~IsAlpha(word[k - 1])
             THEN UpperCase[LetterIndex(word[k])]
             ELSE LowerCase[LetterIndex(word[k])]]

Ellipsis == <<".", ".", ".">>

FunctionKinds == {<<"f", "u", "n", "c", "t", "i", "o", "n">>, <<"m", "e", "t", "h", "o", "d">>}
ClassKinds == {<<"c", "l", "a", "s", "s">>}
ImportKinds == {<<"i", "m", "p", "o", "r", "t">>, <<"i", "m", "p", "o", "r", "t", "_", "s", "t", "a", "t", "e", "m", "e", "n", "t">>}

generate_summary(text, node_type) ==
    LET lines == Split(Strip(text))
        first_line == IF Len(lines) > 0 THEN Strip(lines[1]) ELSE <<>>
    IN IF node_type \in FunctionKinds
       THEN <<"F", "u", "n", "c", "t", "i", "o", "n", ":", " ">> \o Take(first_line, SummaryWidth) \o Ellipsis
       ELSE IF node_type \in ClassKinds
       THEN <<"C", "l", "a", "s", "s", ":", " ">> \o Take(first_line, SummaryWidth) \o Ellipsis
       ELSE IF node_type \in ImportKinds
       THEN <<"I", "m", "p", "o", "r", "t", ":", " ">> \o first_line
       ELSE Title(node_type) \o <<":", " ">>
               \o Take(first_line, SummaryWidth) \o Ellipsis

\* first lines: empty, short, and around the width that is kept
FirstLineLengths ==
    {0, 3, SummaryWidth} \cup {SummaryWidth + e : e \in 1..MaxExcess}

\* what stands before the first line: nothing, an empty line, blank lines
Leaders == {<<>>, <<NL>>, <<" ", NL, "\t", " ">>}

\* what follows the first line: nothing, spaces, a second line
Trailers == {<<>>, <<" ", " ">>, <<NL, " ", "y", NL>>}

SummaryTexts ==
    {lead \o [k \in 1..n |-> "x"] \o trail :
        lead \in Leaders, n \in FirstLineLengths, trail \in Trailers}

\* node types of the capture queries, of the fallback and of merged chunks
SummaryKinds ==
    FunctionKinds \cup ClassKinds \cup ImportKinds
    \cup {<<"f", "u", "n", "c", "t", "i", "o", "n", "_", "d", "e", "f", "i", "n", "i", "t", "i", "o", "n">>, <<"b", "l", "o", "c", "k">>, <<"m", "e", "r", "g", "e", "d">>}

InitSummary ==
    /\ summary_args \in [text : SummaryTexts, node_type : SummaryKinds]
    /\ summary = <<>>
    /\ threads = <<>>
    /\ call_args = <<>>
    /\ call_result = <<>>
    /\ pc = "summary_call"
    /\ filepath = <<>>
    /\ content = <<>>
    /\ parsers = {}
    /\ max_tokens = 0
    /\ min_tokens = 0
    /\ overlap_tokens = 0
    /\ parse_errors = <<>>
    /\ source = "none"
    /\ spans = <<>>
    /\ normalized = <<>>
    /\ chunks = <<>>
    /\ overlap_log = <<>>
    /\ records = <<>>
    /\ stats = InitStats
    /\ id_args = <<>>
    /\ ids = <<>>
    /\ fingerprints = <<>>
    /\ baseline = InitBaseline

GenerateSummary ==
    /\ pc = "summary_call"
    /\ summary' = generate_summary(summary_args.text, summary_args.node_type)
    /\ pc' = "summary_returned"
    /\ UNCHANGED <<filepath, content, parsers, max_tokens, min_tokens,
                   overlap_tokens, parse_errors, source, spans, normalized,
                   chunks, overlap_log, records, stats, baseline>>
    /\ UNCHANGED <<idVars, summary_args, threads, callVars>>

NextSummary == GenerateSummary

SpecSummary == InitSummary /\ [][NextSummary]_vars

----------------------------------------------------------------------------
(* RepoChunker.run: process_file is called for one file after another *)

\* the files of the repository that is traversed
RunFiles ==
    {[path |-> <<"a", ".", "p", "y">>, text |-> <<"a", "b", NL, "c">>],
     [path |-> <<"n", ".", "t", "x", "t">>, text |-> <<"a", "b">>]}

InitRun ==
    /\ \E f \in RunFiles : filepath = f.path /\ content = f.text
    /\ parsers = {"python"}
    /\ max_tokens = 1
    /\ min_tokens = 0
    /\ overlap_tokens = 4
    /\ pc = "idle"
    /\ parse_errors = <<>>
    /\ source = "none"
    /\ spans = <<>>
    /\ normalized = <<>>
    /\ chunks = <<>>
    /\ overlap_log = <<>>
    /\ records = <<>>
    /\ stats = InitStats
    /\ id_args = <<>>
    /\ ids = <<>>
    /\ fingerprints = <<>>
    /\ baseline = InitBaseline
    /\ SideInit

\* traverse_file_system hands the next file to process_file, whose local
\* variables start afresh; the RepoChunker and its chunker stay
NextCall ==
    /\ pc = "done"
    /\ stats.total_files < MaxCalls
    /\ \E f \in RunFiles : filepath' = f.path /\ content' = f.text
    /\ pc' = "idle"
    /\ source' = "none"
    /\ spans' = <<>>
    /\ normalized' = <<>>
    /\ chunks' = <<>>
    /\ overlap_log' = <<>>
    /\ UNCHANGED <<parsers, max_tokens, min_tokens, overlap_tokens,
                   parse_errors, records, stats, baseline>>
    /\ UNCHANGED <<idVars, sideVars>>

NextRun ==
    \/ Next
    \/ NextCall

SpecRun == InitRun /\ [][NextRun]_vars

----------------------------------------------------------------------------
(* process_file called from several threads on one RepoChunker.  There is *)
(* no lock in RepoChunker: `self.stats[key] += n` is a read of the counter *)
(* followed by a write, and another thread may run between the two.        *)

\* chunk_file for a file whose language has no parser: the three stages
chunk_file(text) ==
    _add_overlap(
        _merge_small_chunks(_fallback_chunking(text, max_tokens),
                            min_tokens, max_tokens),
        text, overlap_tokens)

\* the counter a thread is about to read or write, by its place
CounterAt ==
    [total |-> "total_files", failed |-> "failed_files",
     parsed |-> "parsed_files", language |-> "chunks_by_language",
     chunk |-> "total_chunks"]

\* a thread that has not entered process_file yet
ThreadStart(f) ==
    [file |-> f, at |-> "total", loaded |-> FALSE, reg |-> 0,
     todo |-> <<>>]

InitConc ==
    /\ threads \in [1..MaxThreads -> {ThreadStart(f) : f \in RunFiles}]
    /\ summary_args = <<>>
    /\ summary = <<>>
    /\ call_args = <<>>
    /\ call_result = <<>>
    /\ pc = "threads"
    /\ filepath = <<>>
    /\ content = <<>>
    /\ parsers = {}
    /\ max_tokens = 1
    /\ min_tokens = 0
    /\ overlap_tokens = 4
    /\ parse_errors = <<>>
    /\ source = "none"
    /\ spans = <<>>
    /\ normalized = <<>>
    /\ chunks = <<>>
    /\ overlap_log = <<>>
    /\ records = <<>>
    /\ stats = InitStats
    /\ id_args = <<>>
    /\ ids = <<>>
    /\ fingerprints = <<>>
    /\ baseline = InitBaseline

\* the amount the `+=` at this place adds
Increment(th) ==
    IF th.at = "language" THEN Len(th.todo) ELSE 1

\* the first half of `self.stats[key] += n`: the counter is read
LoadStat(t) ==
    /\ threads[t].at \in DOMAIN CounterAt
    /\ ~threads[t].loaded
    /\ LET th == threads[t]
           value == IF th.at = "language"
                    THEN stats.chunks_by_language[_get_language(th.file.path)]
                    ELSE stats[CounterAt[th.at]]
       IN threads' = [threads EXCEPT ![t].loaded = TRUE, ![t].reg = value]
    /\ UNCHANGED <<pipeVars, baseline, idVars, summary_args, summary,
                   callVars>>

\* where process_file goes on after the counter at this place
AfterStore(th) ==
    CASE th.at = "total" -> "read"
      [] th.at = "failed" -> "done"
      [] th.at = "parsed" -> "language"
      [] th.at = "language" -> "chunk"
      [] th.at = "chunk" -> "write"

\* the second half of `+=`: the value read, plus n, is written back
StoreStat(t) ==
    /\ threads[t].at \in DOMAIN CounterAt
    /\ threads[t].loaded
    /\ LET th == threads[t]
           value == th.reg + Increment(th)
       IN /\ stats' =
               IF th.at = "language"
               THEN [stats EXCEPT !.chunks_by_language[
                                      _get_language(th.file.path)] = value]
               ELSE [stats EXCEPT ![CounterAt[th.at]] = value]
          /\ threads' = [threads EXCEPT ![t].loaded = FALSE,
                                        ![t].at = AfterStore(th)]
    /\ UNCHANGED <<filepath, content, parsers, max_tokens, min_tokens,
                   overlap_tokens, pc, parse_errors, source, spans,
                   normalized, chunks, overlap_log, records>>
    /\ UNCHANGED <<baseline, idVars, summary_args, summary, callVars>>

\* the file is read and chunked, or the read raises
ReadAndChunk(t) ==
    /\ threads[t].at = "read"
    /\ \E readable \in BOOLEAN :
          threads' = [threads EXCEPT
              ![t].at = IF readable THEN "parsed" ELSE "failed",
              ![t].todo = IF readable
                          THEN _write_chunks(threads[t].file.path,
                                   chunk_file(threads[t].file.text),
                                   _get_language(threads[t].file.path))
                          ELSE <<>>]
    /\ UNCHANGED <<pipeVars, baseline, idVars, summary_args, summary,
                   callVars>>

\* f.write of one record; the loop of _write_chunks goes on or ends
WriteRecord(t) ==
    /\ threads[t].at = "write"
    /\ records' = Append(records, Head(threads[t].todo))
    /\ threads' = [threads EXCEPT
          ![t].todo = Tail(@),
          ![t].at = IF Len(threads[t].todo) > 1 THEN "chunk" ELSE "done"]
    /\ UNCHANGED <<filepath, content, parsers, max_tokens, min_tokens,
                   overlap_tokens, pc, parse_errors, source, spans,
                   normalized, chunks, overlap_log, stats>>
    /\ UNCHANGED <<baseline, idVars, summary_args, summary, callVars>>

NextConc ==
    \E t \in 1..MaxThreads :
        \/ LoadStat(t)
        \/ StoreStat(t)
        \/ ReadAndChunk(t)
        \/ WriteRecord(t)

SpecConc == InitConc /\ [][NextConc]_vars

----------------------------------------------------------------------------
(* Positions of the pipeline *)

Segmented == pc \in {"merge", "overlap", "write", "done"} /\ source # "none"

Normalized == pc \in {"overlap", "write", "done"} /\ source # "none"

Overlapped == pc \in {"write", "done"} /\ source # "none"

Written == pc = "done" /\ source # "none"

FileLines == Split(content)

Texts(cs) == [i \in 1..Len(cs) |-> cs[i].text]

OverlapLines == overlap_tokens \div 4

----------------------------------------------------------------------------
(* Properties *)

Consecutive(cs, n) ==
    /\ Len(cs) >= 1
    /\ cs[1].start_line = 1
    /\ cs[Len(cs)].end_line = n
    /\ \A i \in 1..Len(cs) : cs[i].start_line <= cs[i].end_line
    /\ \A i \in 2..Len(cs) : cs[i].start_line = cs[i - 1].end_line + 1

\* C1: after the fallback segmenter and _merge_small_chunks (before overlap)
\* the chunks' line ranges are consecutive from line 1 to the last line of
\* the content, and the chunk texts joined with newlines are the content.
C1_FallbackCoversContent ==
    (Normalized /\ source = "fallback") =>
        /\ Consecutive(normalized, Len(FileLines))
        /\ Join(Texts(normalized)) = content
        /\ \A i \in 1..Len(normalized) :
              normalized[i].text =
                  Join(SubSeq(FileLines, normalized[i].start_line,
                              normalized[i].end_line))

C1_Witness ==
    /\ Normalized
    /\ source = "fallback"
    /\ Len(normalized) >= 2
    /\ Len(FileLines) = MaxLines
    /\ \E i \in 1..Len(normalized) :
          normalized[i].end_line > normalized[i].start_line

\* the content is n >= 1 lines, each ended by a newline
NewlineTerminated == Len(content) > 0 /\ content[Len(content)] = NL

TerminatedLineCount == Len(FileLines) - 1

\* C2: a file of n newline-terminated lines that fit in one chunk yields
\* exactly one record, with start_line = 1 and end_line = n.
C2_Claim ==
    (Written /\ source = "fallback" /\ NewlineTerminated
       /\ Len(FileLines[1]) > 0 /\ Len(spans) = 1 /\ min_tokens = 0) =>
        /\ Len(records) = 1
        /\ records[1].start_line = 1
        /\ records[1].end_line = TerminatedLineCount

\* C3 as stated: every output chunk of _merge_small_chunks has at least
\* min_tokens estimated tokens unless it is the last output chunk or merging
\* it with the span that follows it would exceed max_tokens.
FollowingSpan(j) ==
    IF normalized[j].type = "merged"
    THEN merge_visits(spans, min_tokens, max_tokens)[j] + 2
    ELSE merge_visits(spans, min_tokens, max_tokens)[j] + 1

C3_Claim ==
    (Normalized /\ min_tokens <= max_tokens) =>
        \A j \in 1..Len(normalized) :
            \/ estimate_tokens(normalized[j].text) >= min_tokens
            \/ j = Len(normalized)
            \/ estimate_tokens(normalized[j].text)
                 + estimate_tokens(spans[FollowingSpan(j)].text) > max_tokens
            \/ estimate_tokens(normalized[j].text \o <<NL>>
                                 \o spans[FollowingSpan(j)].text) > max_tokens

\* C3 (amended): every output chunk that is an input span passed through
\* unmerged has at least min_tokens estimated tokens unless it is the last
\* span or its estimate plus its successor's estimate exceeds max_tokens.
C3_PassThroughNotSmall ==
    (Normalized /\ min_tokens <= max_tokens) =>
        \A j \in 1..Len(normalized) :
            normalized[j].type # "merged" =>
                LET i == merge_visits(spans, min_tokens, max_tokens)[j]
                IN /\ normalized[j] = spans[i]
                   /\ \/ estimate_tokens(spans[i].text) >= min_tokens
                      \/ i = Len(spans)
                      \/ estimate_tokens(spans[i].text)
                           + estimate_tokens(spans[i + 1].text) > max_tokens

C3_Witness ==
    /\ Normalized
    /\ min_tokens <= max_tokens
    /\ Len(spans) = MaxLines
    /\ \E j \in 1..Len(normalized) :
          /\ normalized[j].type # "merged"
          /\ j < Len(normalized)
          /\ estimate_tokens(normalized[j].text) < min_tokens

\* C4: every chunk of _fallback_chunking has at least one line and non-empty
\* text, is of type 'block' with parser_fallback true, and there is at least
\* one chunk.
C4_Claim ==
    (Segmented /\ source = "fallback") =>
        /\ Len(spans) >= 1
        /\ \A i \in 1..Len(spans) :
              /\ spans[i].end_line >= spans[i].start_line
              /\ Len(spans[i].text) > 0
              /\ spans[i].type = "block"
              /\ spans[i].parser_fallback

IdsComputed == pc = "identity" /\ ids # <<>>

FingerprintsComputed == pc = "identity" /\ fingerprints # <<>>

\* C5: create_chunk_id returns 'sha1:' followed by exactly what
\* create_code_fingerprint returns for the same arguments: a 40-character
\* digest, so the id has 45 characters.
C5_IdIsPrefixedFingerprint ==
    (IdsComputed /\ FingerprintsComputed) =>
        \A k \in 1..2 :
            /\ ids[k] = Sha1Prefix \o fingerprints[k]
            /\ Len(fingerprints[k]) = 40
            /\ Len(ids[k]) = 45

C5_Witness ==
    /\ IdsComputed
    /\ FingerprintsComputed
    /\ id_args[1] # id_args[2]
    /\ fingerprints[1] # fingerprints[2]

\* the number of components in which the two argument tuples differ
ComponentsChanged ==
    Cardinality({f \in {"path", "start_line", "end_line", "text"} :
                    id_args[1][f] # id_args[2][f]})

HashedString(k) ==
    chunk_id_content(id_args[k].path, id_args[k].start_line,
                     id_args[k].end_line, id_args[k].text)

\* C6: equal arguments give equal ids; changing exactly one of path,
\* start_line, end_line, text changes the hashed string, so the ids are
\* equal only if the digests of two different strings collide.
C6_OneChangeChangesHashedString ==
    IdsComputed =>
        /\ id_args[1] = id_args[2] => ids[1] = ids[2]
        /\ ComponentsChanged = 1 =>
              /\ HashedString(1) # HashedString(2)
              /\ ids[1] = ids[2] =>
                    Sha1Hex(HashedString(1)) = Sha1Hex(HashedString(2))

C6_Witness ==
    /\ IdsComputed
    /\ ComponentsChanged = 1
    /\ id_args[1].end_line # id_args[2].end_line
    /\ ids[1] # ids[2]

\* C7: every record written by _write_chunks carries the chunk as it is
\* after overlap injection, its id and code_fingerprint are computed from the
\* record's own filepath, start_line, end_line and text, id is 'sha1:' +
\* code_fingerprint, and tokens_estimate is the estimate of the record's text.
C7_RecordIdentityFromFinalChunk ==
    Written =>
        /\ Len(records) <= Len(chunks)
        /\ stats.failed_files = 0 => Len(records) = Len(chunks)
        /\ \A i \in 1..Len(records) :
              LET r == records[i]
              IN /\ r.filepath = filepath
                 /\ r.start_line = chunks[i].start_line
                 /\ r.end_line = chunks[i].end_line
                 /\ r.text = chunks[i].text
                 /\ r.id = create_chunk_id(r.filepath, r.start_line,
                                           r.end_line, r.text)
                 /\ r.code_fingerprint =
                        create_code_fingerprint(r.filepath, r.start_line,
                                                r.end_line, r.text)
                 /\ r.id = Sha1Prefix \o r.code_fingerprint
                 /\ r.tokens_estimate = estimate_tokens(r.text)

C7_Witness ==
    /\ Written
    /\ \E i \in 1..Len(records) :
          /\ records[i].text # normalized[i].text
          /\ records[i].end_line # normalized[i].end_line
          /\ records[i].id #
               create_chunk_id(filepath, normalized[i].start_line,
                               normalized[i].end_line, normalized[i].text)

\* C8: _add_overlap returns a list of zero or one chunk as it is: text,
\* start_line and end_line unchanged, whatever content and overlap_tokens.
C8_SingleChunkUntouched ==
    (Overlapped /\ Len(normalized) <= 1) =>
        /\ Len(chunks) = Len(normalized)
        /\ \A i \in 1..Len(chunks) :
              /\ chunks[i].text = normalized[i].text
              /\ chunks[i].start_line = normalized[i].start_line
              /\ chunks[i].end_line = normalized[i].end_line

C8_Witness ==
    /\ Overlapped
    /\ Len(normalized) = 1
    /\ OverlapLines >= 1
    /\ Len(FileLines) >= 2

\* C9: for every chunk i > 0 of two or more chunks, the lines _add_overlap
\* prepends are the last (at most overlap_tokens / 4) lines of chunk i-1's
\* range as it was before overlap, and start_line becomes the number of the
\* first prepended line, inside chunk i-1's original range.
C9_Claim ==
    (Overlapped /\ source = "fallback" /\ Len(normalized) >= 2) =>
        \A i \in 2..Len(chunks) :
            LET pre == overlap_log[i].prepended
                prev == normalized[i - 1]
            IN /\ Len(pre) <= OverlapLines
               /\ Len(pre) > 0 =>
                     /\ pre[Len(pre)] = prev.end_line
                     /\ pre[1] >= prev.start_line
                     /\ chunks[i].start_line = pre[1]

\* C10: for every chunk i < len-1 of two or more chunks, the lines
\* _add_overlap appends start at chunk i+1's original start_line, number at
\* most overlap_tokens / 4, all lie inside chunk i+1's original range, and
\* end_line becomes the number of the last appended line.
C10_Claim ==
    (Overlapped /\ source = "fallback" /\ Len(normalized) >= 2) =>
        \A i \in 1..(Len(chunks) - 1) :
            LET app == overlap_log[i].appended
                nxt == normalized[i + 1]
            IN /\ Len(app) <= OverlapLines
               /\ Len(app) > 0 =>
                     /\ app[1] = nxt.start_line
                     /\ app[Len(app)] <= nxt.end_line
                     /\ chunks[i].end_line = app[Len(app)]

\* the file was chunked and every record of it was written
FullyWritten == Written /\ stats.failed_files = 0

\* an exception ended _write_chunks
WriteFailed == Written /\ stats.parsed_files = 1 /\ stats.failed_files = 1

\* C11: when process_file returns, either every chunk of the file is written
\* and the file is counted in parsed_files only, or no record is written and
\* the file is counted in failed_files only.
C11_Claim ==
    pc = "done" =>
        \/ /\ Len(records) = Len(chunks)
           /\ Len(chunks) > 0
           /\ stats.parsed_files = 1
           /\ stats.failed_files = 0
        \/ /\ records = <<>>
           /\ stats.parsed_files = 0
           /\ stats.failed_files = 1

\* C12: an empty file yields no span even after fallback, so process_file
\* writes no record for it and counts it in failed_files, not in
\* parsed_files.
C12_Claim ==
    (Written /\ content = <<>>) =>
        /\ records = <<>>
        /\ stats.failed_files = 1
        /\ stats.parsed_files = 0

\* the calls so far whose file could not be read
UnreadableCalls == stats.total_files - baseline.stats.total_files

\* what the calls on unreadable files have left behind
C13_OnlyFailureCounted ==
    /\ records = baseline.records
    /\ parse_errors = baseline.parse_errors
    /\ stats.parsed_files = baseline.stats.parsed_files
    /\ stats.total_chunks = baseline.stats.total_chunks
    /\ stats.chunks_by_language = baseline.stats.chunks_by_language
    /\ stats.failed_files = baseline.stats.failed_files + UnreadableCalls

\* a call whose file cannot be read: process_file goes from its start to
\* its end in one step
C13_UnreadableStep ==
    (pc = "idle" /\ pc' = "done") =>
        /\ stats'.total_files = stats.total_files + 1
        /\ stats'.failed_files = stats.failed_files + 1
        /\ stats'.parsed_files = stats.parsed_files
        /\ stats'.total_chunks = stats.total_chunks
        /\ stats'.chunks_by_language = stats.chunks_by_language
        /\ records' = records
        /\ parse_errors' = parse_errors

\* C13: a call on an unreadable file writes no record, adds one to
\* total_files and to failed_files and changes nothing else; the calls that
\* follow it leave the records, the diagnostics and the other counters as
\* they are in the run without the failed call.
C13_UnreadableFileIsolated ==
    /\ []C13_OnlyFailureCounted
    /\ [][C13_UnreadableStep]_vars

\* the first file could not be read and the second one has been written
C13_Witness ==
    /\ pc = "done"
    /\ source # "none"
    /\ stats.total_files = 2
    /\ UnreadableCalls = 1
    /\ stats.parsed_files = 1
    /\ Len(records) >= 2

\* no parser and query are registered for the language of the file
Unregistered == _get_language(filepath) \notin parsers

\* the step of chunk_file that tries the structural parse
C14_ParseStep ==
    pc = "parse" =>
        /\ Unregistered => (parse_errors' = parse_errors /\ pc' = "fallback")
        /\ \/ parse_errors' = parse_errors
           \/ /\ Len(parse_errors') = Len(parse_errors) + 1
              /\ SubSeq(parse_errors', 1, Len(parse_errors)) = parse_errors
              /\ parse_errors'[Len(parse_errors')]
                    \in ParseDiagnostics(_get_language(filepath))
              /\ pc' = "fallback"
        /\ pc' \in {"fallback", "merge"}

\* after a missing grammar or a diagnostic the file is chunked by fallback
C14_FallbackTaken ==
    /\ (Segmented /\ (Unregistered \/ parse_errors # <<>>)) =>
          /\ source = "fallback"
          /\ spans = _fallback_chunking(content, max_tokens)
          /\ Len(spans) >= 1
          /\ Unregistered => parse_errors = <<>>
          /\ Len(parse_errors) <= 1
    /\ _get_language(<<"n", ".", "t", "x", "t">>) = "unknown"

\* C14: without a registered grammar or query chunk_file falls back without
\* a diagnostic; when the parser or the query raises, exactly one diagnostic
\* is appended to parse_errors and the fallback segmenter chunks the file.
C14_DiagnosedFallback ==
    /\ []C14_FallbackTaken
    /\ [][C14_ParseStep]_vars

\* a registered parser raised and the file was segmented by fallback
C14_Witness ==
    /\ Segmented
    /\ ~Unregistered
    /\ Len(parse_errors) = 1
    /\ source = "fallback"
    /\ Len(FileLines) = MaxLines

\* the lines of the file whose own estimate exceeds max_tokens
OversizedLines ==
    {n \in 1..Len(FileLines) : estimate_tokens(FileLines[n]) > max_tokens}

\* C15: every line whose own estimate exceeds max_tokens is a fallback chunk
\* of its own, with start_line = end_line = its number and the whole line as
\* text, so no other chunk holds it or a part of it.
C15_OversizedLineAlone ==
    (Segmented /\ source = "fallback") =>
        \A n \in OversizedLines :
            /\ \E i \in 1..Len(spans) :
                  /\ spans[i].start_line = n
                  /\ spans[i].end_line = n
                  /\ spans[i].text = FileLines[n]
            /\ \A i \in 1..Len(spans) :
                  (spans[i].start_line <= n /\ n <= spans[i].end_line) =>
                      (spans[i].start_line = n /\ spans[i].end_line = n)

\* an oversized line stands between two lines that fit
C15_Witness ==
    /\ Segmented
    /\ source = "fallback"
    /\ Len(FileLines) = 3
    /\ OversizedLines = {2}
    /\ max_tokens >= 1

\* _merge_small_chunks was called on spans and returned normalized
MergeReturned == pc = "merge_returned"

\* the span of the input at which output chunk j was made
VisitOf(j) == merge_visits(spans, min_tokens, max_tokens)[j]

\* C16: a span a below min_tokens that is not the last and fits with its
\* successor b becomes one chunk named <a.name>_merged_<b.name> of type
\* 'merged' from a.start_line to b.end_line with text a.text, newline,
\* b.text, and the chunk after it is made from the span after b; two
\* 5-token fallback blocks with min_tokens=50, max_tokens=10000 become
\* block_1_merged_block_2.
C16_MergedChunkShape ==
    MergeReturned =>
        /\ \A j \in 1..Len(normalized) :
              LET i == VisitOf(j)
              IN MergeHere(spans, i, min_tokens, max_tokens) =>
                   LET a == spans[i]
                       b == spans[i + 1]
                       out == normalized[j]
                   IN /\ out.name = a.name \o "_merged_" \o b.name
                      /\ out.type = "merged"
                      /\ out.start_line = a.start_line
                      /\ out.end_line = b.end_line
                      /\ out.text = a.text \o <<NL>> \o b.text
                      /\ IF j < Len(normalized)
                         THEN /\ i + 2 <= Len(spans)
                              /\ normalized[j + 1].start_line =
                                    spans[i + 2].start_line
                         ELSE i + 1 = Len(spans)
        /\ (/\ spans = <<SpanOf(1, "block", 5), SpanOf(2, "block", 5)>>
            /\ min_tokens = 50
            /\ max_tokens = 10000) =>
              /\ Len(normalized) = 1
              /\ normalized[1].name = "block_1_merged_block_2"

\* a merge of two blocks is followed by a third span
C16_Witness ==
    /\ MergeReturned
    /\ Len(spans) = 3
    /\ Len(normalized) = 2
    /\ normalized[1].type = "merged"
    /\ normalized[1].name = "block_1_merged_block_2"
    /\ normalized[2] = spans[3]

\* C17: three spans with text, start_line, end_line and type only, of
\* estimates 5, 5 and 100, with min_tokens=10 and max_tokens=1000: the call
\* returns two chunks, the merge of the first two, named with 'merged', and
\* the third span as it is.
C17_Claim ==
    (/\ pc \in {"merge_returned", "merge_raised"}
     /\ spans = <<SpanOf(1, "bare", 5), SpanOf(2, "bare", 5),
                  SpanOf(3, "bare", 100)>>
     /\ min_tokens = 10
     /\ max_tokens = 1000) =>
        /\ pc = "merge_returned"
        /\ Len(normalized) = 2
        /\ normalized[1].type = "merged"
        /\ normalized[1].start_line = 1
        /\ normalized[1].end_line = 2
        /\ normalized[2] = spans[3]

\* the chunk dict carries a true parser_fallback
Flagged(chunk) == Get(chunk, "parser_fallback", FALSE)

\* C19: the spans of a file are all fallback blocks or all structural nodes;
\* a record carries parser_fallback exactly when its span came from the
\* fallback segmenter; a merged chunk carries it when one of its halves
\* did, and _add_overlap leaves it as it is.
C19_SingleSourceFlag ==
    /\ Segmented =>
          /\ source \in {"parsed", "fallback"}
          /\ \A i \in 1..Len(spans) :
                /\ Flagged(spans[i]) = (source = "fallback")
                /\ (spans[i].capture_name = "fallback") = (source = "fallback")
    /\ Normalized =>
          \A j \in 1..Len(normalized) :
              LET i == merge_visits(spans, min_tokens, max_tokens)[j]
              IN Flagged(normalized[j]) =
                    IF MergeHere(spans, i, min_tokens, max_tokens)
                    THEN Flagged(spans[i]) \/ Flagged(spans[i + 1])
                    ELSE Flagged(spans[i])
    /\ Overlapped =>
          /\ Len(chunks) = Len(normalized)
          /\ \A i \in 1..Len(chunks) :
                Flagged(chunks[i]) = Flagged(normalized[i])
    /\ Written =>
          \A i \in 1..Len(records) :
              records[i].parser_fallback = (source = "fallback")

\* fallback blocks went through overlap injection and were written
C19_Witness ==
    /\ FullyWritten
    /\ source = "fallback"
    /\ Len(records) >= 2
    /\ chunks # normalized
    /\ \A i \in 1..Len(records) : records[i].parser_fallback

\* the label the claim gives to a node type
LabelOf(node_type) ==
    IF node_type \in FunctionKinds THEN <<"F", "u", "n", "c", "t", "i", "o", "n", ":">>
    ELSE IF node_type \in ClassKinds THEN <<"C", "l", "a", "s", "s", ":">>
    ELSE IF node_type \in ImportKinds THEN <<"I", "m", "p", "o", "r", "t", ":">>
    ELSE Title(node_type) \o <<":">>

\* the first line of the text that is not blank, without the blanks around
\* it; empty when there is none
FirstNonEmptyLine(text) ==
    LET lines == Split(text)
        filled == {k \in 1..Len(lines) : Strip(lines[k]) # <<>>}
    IN IF filled = {} THEN <<>>
       ELSE Strip(lines[CHOOSE k \in filled : \A m \in filled : k <= m])

\* C20: for every text and node type the summary is the label of the type
\* followed by the first non-empty line of the text cut to 100 characters
\* (a closing "..." is let pass).
C20_Claim ==
    pc = "summary_returned" =>
        LET kept == Take(FirstNonEmptyLine(summary_args.text), SummaryWidth)
            plain == LabelOf(summary_args.node_type) \o <<" ">> \o kept
        IN summary \in {plain, plain \o Ellipsis}

\* every thread has left process_file
AllCallsFinished ==
    /\ threads # <<>>
    /\ \A t \in DOMAIN threads : threads[t].at = "done"

\* C18: after concurrent process_file calls have all finished no counter
\* update is lost: total_files is the number of calls, parsed_files +
\* failed_files is total_files, total_chunks is the number of records.
C18_Claim ==
    AllCallsFinished =>
        /\ stats.total_files = Len(threads)
        /\ stats.parsed_files + stats.failed_files = stats.total_files
        /\ stats.total_chunks = Len(records)

\* ceil(n / 4)
CeilQuarter(n) == (n + 3) \div 4

\* C21: without the exact tokenizer the estimate of a text is
\* ceil(len(text) / 4): 0 for the empty text, at least 1 for any other.
C21_Claim ==
    Written =>
        \A i \in 1..Len(records) :
            LET r == records[i]
            IN /\ r.tokens_estimate = CeilQuarter(Len(r.text))
               /\ r.tokens_estimate >= 0
               /\ (r.text = <<>>) = (r.tokens_estimate = 0)

\* the name ends with the extension and has something before it
HasExtension(name, ext) ==
    /\ Len(name) > Len(ext)
    /\ Lower(SubSeq(name, Len(name) - Len(ext) + 1, Len(name))) = ext

\* the extensions of the table, each with its language
LanguageTable ==
    {<<<<".", "p", "y">>, "python">>,
     <<<<".", "j", "s">>, "javascript">>,
     <<<<".", "j", "s", "x">>, "javascript">>,
     <<<<".", "t", "s">>, "typescript">>,
     <<<<".", "t", "s", "x">>, "typescript">>,
     <<<<".", "j", "a", "v", "a">>, "java">>}

\* C22: _get_language looks at the final extension of the path only (in
\* either case): python for .py, javascript for .js and .jsx, typescript for
\* .ts and .tsx, java for .java, unknown for any other extension and for a
\* path without extension.
C22_LanguageByFinalExtension ==
    pc = "language_returned" =>
        LET name == Name(call_args)
            hits == {row \in LanguageTable : HasExtension(name, row[1])}
        IN /\ \A row \in hits : call_result = row[2]
           /\ hits = {} => call_result = "unknown"
           /\ call_result \in Languages

\* a name with two dots, under a directory that has an extension of its own
C22_Witness ==
    /\ pc = "language_returned"
    /\ call_args = <<"d", ".", "p", "y", "/", "a", ".", "j", "s", ".", "t", "s", "x">>
    /\ call_result = "typescript"


\* the sum of the per-line estimates of lines first..last of the content
LineSum(first, last) ==
    LET lines == FileLines
        RECURSIVE Sum(_)
        Sum(n) == IF n > last THEN 0
                  ELSE estimate_tokens(lines[n]) + Sum(n + 1)
    IN Sum(first)

\* _fallback_chunking has just returned
AfterFallback == pc = "merge" /\ source = "fallback"

\* _add_overlap has just returned
AfterOverlap == pc = "write" /\ source # "none"

\* C23: the fallback segmenter closes its accumulator before a line exactly
\* when the accumulated per-line estimates plus that line's estimate exceed
\* max_tokens and the accumulator is not empty: a chunk of two or more lines
\* sums to at most max_tokens, a line is never added to a non-empty
\* accumulator it would overfill, and every chunk but the last is maximal.
C23_ClosedExactlyWhenOverfull ==
    AfterFallback =>
        /\ \A i \in 1..Len(spans) :
              /\ spans[i].end_line > spans[i].start_line =>
                    LineSum(spans[i].start_line, spans[i].end_line)
                        <= max_tokens
              /\ \A n \in (spans[i].start_line + 1)..spans[i].end_line :
                    LineSum(spans[i].start_line, n) <= max_tokens
        /\ \A i \in 1..(Len(spans) - 1) :
              /\ spans[i + 1].start_line = spans[i].end_line + 1
              /\ LineSum(spans[i].start_line, spans[i].end_line)
                     + estimate_tokens(FileLines[spans[i + 1].start_line])
                   > max_tokens

\* a two-line chunk that is exactly full, closed before a line that has
\* tokens of its own
C23_Witness ==
    /\ AfterFallback
    /\ Len(spans) = 2
    /\ spans[1].end_line = 2
    /\ max_tokens > 0
    /\ LineSum(1, 2) = max_tokens
    /\ estimate_tokens(FileLines[3]) > 0


\* C24: _merge_small_chunks merges a span with its successor only if the
\* estimate of the combined text (the two texts joined by a newline) is at
\* most max_tokens, so every chunk of type 'merged' it returns has an
\* estimate of at most max_tokens.
C24_Claim ==
    Normalized =>
        \A j \in 1..Len(normalized) :
            normalized[j].type = "merged" =>
                estimate_tokens(normalized[j].text) <= max_tokens


\* the number of input spans an output chunk stands for
Width(chunk) == IF chunk.type = "merged" THEN 2 ELSE 1

\* the input index at which output chunk j starts, counted from the output
RECURSIVE FirstInput(_)
FirstInput(j) ==
    IF j = 1 THEN 1 ELSE FirstInput(j - 1) + Width(normalized[j - 1])

Merges == Cardinality({j \in 1..Len(normalized) : normalized[j].type = "merged"})

\* C25: a call of _merge_small_chunks that returns is one pass from left to
\* right: the output chunks stand for the input spans in order, each input
\* span in exactly one of them; an output chunk is an input span as it was
\* (not small, or the last span, or too large together with its successor)
\* or the merge of two adjacent input spans, never of more; the output has
\* as many chunks as the input has spans minus the number of merges.
C25_SinglePass ==
    MergeReturned =>
        /\ Len(normalized) = Len(spans) - Merges
        /\ Len(spans) > 0 =>
              FirstInput(Len(normalized)) + Width(normalized[Len(normalized)])
                  = Len(spans) + 1
        /\ \A j \in 1..Len(normalized) :
              LET i == FirstInput(j)
                  out == normalized[j]
              IN IF out.type = "merged"
                 THEN /\ i + 1 <= Len(spans)
                      /\ out.text = spans[i].text \o <<NL>> \o spans[i + 1].text
                      /\ out.start_line = spans[i].start_line
                      /\ out.end_line = spans[i + 1].end_line
                      /\ spans[i].type # "merged"
                      /\ spans[i + 1].type # "merged"
                 ELSE /\ i <= Len(spans)
                      /\ out = spans[i]
                      /\ \/ estimate_tokens(out.text) >= min_tokens
                         \/ i = Len(spans)
                         \/ estimate_tokens(out.text)
                              + estimate_tokens(spans[i + 1].text) > max_tokens

\* a merged chunk that is still small and would fit with the span after it
\* is left as it is
C25_Witness ==
    /\ MergeReturned
    /\ Len(spans) = 3
    /\ Len(normalized) = 2
    /\ normalized[1].type = "merged"
    /\ estimate_tokens(normalized[1].text) < min_tokens
    /\ estimate_tokens(normalized[1].text)
         + estimate_tokens(normalized[2].text) <= max_tokens
    /\ normalized[2] = spans[3]


\* text t occurs in text s
Contains(s, t) ==
    \E o \in 0..(Len(s) - Len(t)) : SubSeq(s, o + 1, o + Len(t)) = t

\* C26: _add_overlap returns as many chunks as it was given, in the same
\* order, each with the type, name and parser_fallback flag it had after
\* normalization and with its normalized text inside its new text: no chunk
\* is merged, split, dropped or normalized again, whatever overlap_tokens is.
C26_OverlapKeepsChunks ==
    AfterOverlap =>
        /\ Len(chunks) = Len(normalized)
        /\ \A i \in 1..Len(normalized) :
              /\ chunks[i].type = normalized[i].type
              /\ chunks[i].name = normalized[i].name
              /\ DOMAIN chunks[i] = DOMAIN normalized[i]
              /\ Flagged(chunks[i]) = Flagged(normalized[i])
              /\ Contains(chunks[i].text, normalized[i].text)

\* three fallback chunks, the first widened at its end and the last at its
\* start
C26_Witness ==
    /\ AfterOverlap
    /\ source = "fallback"
    /\ overlap_tokens >= 4
    /\ Len(normalized) = 3
    /\ Len(chunks) = 3
    /\ chunks[1].end_line > normalized[1].end_line
    /\ chunks[3].start_line < normalized[3].start_line
    /\ chunks[2].text # normalized[2].text
    /\ Flagged(chunks[2])


\* C27: for two or more chunks with consecutive line ranges over a content
\* of N lines, after _add_overlap every chunk has 1 <= start_line <= its
\* start_line before overlap and its end_line before overlap <= end_line
\* <= N; the first chunk's start_line and the last chunk's end_line are as
\* before; each range and each text gains at most overlap_tokens // 4 lines
\* on each side.
C27_RangesGrowInsideFile ==
    (/\ AfterOverlap
     /\ Len(normalized) >= 2
     /\ Consecutive(normalized, Len(FileLines))) =>
        /\ Len(chunks) = Len(normalized)
        /\ \A i \in 1..Len(normalized) :
              /\ 1 <= chunks[i].start_line
              /\ chunks[i].start_line <= normalized[i].start_line
              /\ normalized[i].end_line <= chunks[i].end_line
              /\ chunks[i].end_line <= Len(FileLines)
              /\ normalized[i].start_line - chunks[i].start_line
                    <= OverlapLines
              /\ chunks[i].end_line - normalized[i].end_line <= OverlapLines
              /\ Len(overlap_log[i].prepended) <= OverlapLines
              /\ Len(overlap_log[i].appended) <= OverlapLines
        /\ chunks[1].start_line = normalized[1].start_line
        /\ chunks[Len(chunks)].end_line
              = normalized[Len(normalized)].end_line

\* the last of three chunks reaches back over two lines, as far as
\* overlap_tokens allows
C27_Witness ==
    /\ AfterOverlap
    /\ Len(normalized) = 3
    /\ Consecutive(normalized, Len(FileLines))
    /\ OverlapLines = 2
    /\ chunks[1].end_line = normalized[1].end_line + 2
    /\ chunks[3].start_line < normalized[3].start_line
    /\ Len(overlap_log[3].prepended) = 2


\* C28: the string hashed for identity encodes path, start_line, end_line
\* and text without ambiguity: two argument tuples that differ in any
\* component give different strings, so their ids are equal only when two
\* different strings have the same digest.
C28_Claim ==
    (IdsComputed /\ id_args[1] # id_args[2]) =>
        HashedString(1) # HashedString(2)


\* C29: after any sequence of process_file calls on one RepoChunker (files
\* that chunk, files that cannot be read, files whose records cannot be
\* written) parsed_files + failed_files = total_files.
C29_Claim ==
    pc = "done" =>
        stats.parsed_files + stats.failed_files = stats.total_files

\* the sum of chunks_by_language over the languages
ChunksOfAllLanguages ==
    stats.chunks_by_language["python"] + stats.chunks_by_language["javascript"]
      + stats.chunks_by_language["typescript"]
      + stats.chunks_by_language["java"] + stats.chunks_by_language["unknown"]

\* C30: after any sequence of process_file calls on one RepoChunker,
\* total_chunks is the sum of chunks_by_language over all languages and is
\* the number of records appended to chunks.jsonl by those calls.
C30_Claim ==
    pc = "done" =>
        /\ stats.total_chunks = ChunksOfAllLanguages
        /\ stats.total_chunks = Len(records)

====
